---- MODULE Spec2Model ----
(***************************************************************************)
(* Model of scripts/summarize_metrics.py: the metrics summarizer that      *)
(* reads test_outputs/perf/perf.jsonl, keeps one run's events, archives    *)
(* them, renders summary.md and updates the cumulative index README.md.    *)
(*                                                                         *)
(* Representation.                                                         *)
(*  - A Python value that may be None is a sequence of length at most 1:   *)
(*    <<>> is None and <<v>> is the value v.                               *)
(*  - An event (a JSON object) is a function from the keys it carries to   *)
(*    such values: a key mapped to <<>> is a JSON null, a key outside the  *)
(*    DOMAIN is a missing key.  dict.get reads both as None.               *)
(*  - Numbers are naturals; text values are strings of TextOrder.          *)
(*  - A line of summary.md is a tuple of strings: a one-element tuple for  *)
(*    a plain line, the tuple of cells for a table line "| c1 | c2 |".     *)
(*  - The content of the index file is a sequence of text fragments, each  *)
(*    either a line break ("\n", "\r") or a piece of text without one.     *)
(*  - The backquote of the source's texts is written ' in the strings.     *)
(***************************************************************************)
EXTENDS Integers, Sequences, FiniteSets, TLC

VARIABLES
    perfLog,      \* test_outputs/perf/perf.jsonl: None, or Some(sequence of lines)
    eventsFile,   \* out dir -> None or Some(lines of <out-dir>/events.jsonl)
    summaryFile,  \* out dir -> None or Some(lines of <out-dir>/summary.md)
    indexFile,    \* test_outputs/metrics/README.md: None or Some(fragments)
    now,          \* the UTC clock, in seconds
    call,         \* the most recent invocation: its arguments and what it did
    history       \* the arguments of the invocations that completed, oldest first

vars == <<perfLog, eventsFile, summaryFile, indexFile, now, call, history>>

-----------------------------------------------------------------------------
(* Bounds of the model *)

\* longest log, in lines, of the pipeline specification
MaxLog == 3
\* the clock runs from 0 to MaxClock
MaxClock == 1
\* longest initial index content, in fragments, of the index specification
MaxIndexLen == 4
\* most keys a single event carries besides runID, in the row specification
MaxPresent == 3
\* most invocations that complete in one behaviour
MaxCalls == 3

-----------------------------------------------------------------------------
(* Python values *)

None == <<>>
Some(v) == <<v>>

\* dict.get(key): None for a missing key and for a JSON null
Get(e, f) == IF f \in DOMAIN e THEN e[f] ELSE None

\* the text values of the model in Python's str order
TextOrder == <<"", "A", "B", "a", "b", "m", "n", "s", "t", "u">>

\* position of a string in Python's order of str
StrRank(s) == CHOOSE i \in 1..Len(TextOrder) : TextOrder[i] = s

\* `v or ""` on a text value
OrEmpty(v) == IF v = None \/ v = Some("") THEN "" ELSE v[1]

\* `v or 0` on a number
OrZero(v) == IF v = None \/ v = Some(0) THEN 0 ELSE v[1]

\* truthiness of a number or None
TruthyNum(v) == v # None /\ v # Some(0)

\* truthiness of a text value or None
TruthyText(v) == v # None /\ v # Some("")

RECURSIVE Zeros(_)
Zeros(n) == IF n = 0 THEN "" ELSE "0" \o Zeros(n - 1)

\* f"{v:.{places}f}" of a natural number v
FixedPoint(v, places) == ToString(v) \o "." \o Zeros(places)

\* _fmt_ms
FmtMs(v) == IF v = None THEN "" ELSE FixedPoint(v[1], 2)

\* _fmt
Fmt(v, places) == IF v = None THEN "" ELSE FixedPoint(v[1], places)

\* _safe
Safe(s) == IF s # None THEN s[1] ELSE ""

\* str(v) inside an f-string, of a number or None
Str(v) == IF v = None THEN "None" ELSE ToString(v[1])

-----------------------------------------------------------------------------
(* Event Source Reader *)

BlankLine == [kind |-> "blank"]
MalformedLine == [kind |-> "malformed"]
\* a line holding valid JSON that is not an object, such as 42
ScalarLine == [kind |-> "scalar"]
ObjectLine(e) == [kind |-> "object", obj |-> e]
\* a line the reader raises on: bytes that are not UTF-8 (UnicodeDecodeError
\* while the file is iterated), or text on which json.loads raises an error
\* other than JSONDecodeError (RecursionError on deep nesting, ValueError on
\* an integer of more digits than the interpreter converts)
FatalLine == [kind |-> "fatal"]

\* json.dumps(e) + "\n"
JsonDumps(e) == ObjectLine(e)

\* _read_jsonl: raised tells whether it raises (only JSONDecodeError is
\* caught); otherwise out is what it returns, the lines json.loads accepts,
\* in file order, each kept as the parsed value
ReadJsonl(file) ==
    IF file = None THEN [raised |-> FALSE, out |-> <<>>]
    ELSE IF \E i \in 1..Len(file[1]) : file[1][i].kind = "fatal"
    THEN [raised |-> TRUE, out |-> <<>>]
    ELSE [raised |-> FALSE,
          out |-> SelectSeq(file[1],
                            LAMBDA l : l.kind \notin {"blank", "malformed"})]

-----------------------------------------------------------------------------
(* Run Filter *)

\* a filter that keeps every event that names a run
RunMatchesAnyRun(e, run) == Get(e, "runID") # None

\* e.get("runID") == args.run_id
RunMatches(e, run) == Get(e, "runID") = Some(run)

\* the list comprehension of main: e.get on a parsed value that is not a dict
\* raises AttributeError
FilterRaises(parsed) == \E i \in 1..Len(parsed) : parsed[i].kind # "object"

FilterRun(parsed, run) ==
    LET hits == SelectSeq(parsed, LAMBDA l : RunMatches(l.obj, run))
    IN  [i \in 1..Len(hits) |-> hits[i].obj]

-----------------------------------------------------------------------------
(* Deduplicator *)

ProbeKey(e) ==
    <<Get(e, "suite"), Get(e, "label"), Get(e, "width"), Get(e, "height"),
      Get(e, "test")>>

\* a dict that keeps the first value stored under a key
DictSetKeepFirst(d, k, e) ==
    IF \E i \in 1..Len(d) : d[i].key = k THEN d
    ELSE Append(d, [key |-> k, e |-> e])

\* last_by_key[key] = e on a dict kept as its items in insertion order
DictSet(d, k, e) ==
    IF \E i \in 1..Len(d) : d[i].key = k
    THEN [i \in 1..Len(d) |-> IF d[i].key = k THEN [key |-> k, e |-> e] ELSE d[i]]
    ELSE Append(d, [key |-> k, e |-> e])

RECURSIVE LastByKey(_)
LastByKey(events) ==
    IF events = <<>> THEN <<>>
    ELSE LET n == Len(events)
         IN  DictSet(LastByKey(SubSeq(events, 1, n - 1)), ProbeKey(events[n]),
                     events[n])

\* last_by_key.values()
DictValues(d) == [i \in 1..Len(d) |-> d[i].e]

-----------------------------------------------------------------------------
(* Categorizer *)

PerfGate(e) == Get(e, "avgMs") # None
MemGate(e) == Get(e, "peakRSSDeltaMB") # None
ColorGate(e) == Get(e, "deltaE2000Avg") # None \/ Get(e, "deltaE2000Max") # None
StudioGate(e) == Get(e, "lutMeanAbsErr") # None \/ Get(e, "lutMaxAbsErr") # None
OcioGate(e) ==
    Get(e, "ocioBakeMeanAbsErr") # None \/ Get(e, "ocioBakeMaxAbsErr") # None

PerfRow(e) ==
    [suite |-> Get(e, "suite"), label |-> Get(e, "label"), w |-> Get(e, "width"),
     h |-> Get(e, "height"), frames |-> Get(e, "frames"),
     avgMs |-> Get(e, "avgMs"), test |-> Get(e, "test")]

MemRow(e) ==
    [suite |-> Get(e, "suite"), label |-> Get(e, "label"),
     peakRSSDeltaMB |-> Get(e, "peakRSSDeltaMB"), message |-> Get(e, "message"),
     test |-> Get(e, "test")]

ColorRow(e) ==
    [suite |-> Get(e, "suite"), label |-> Get(e, "label"),
     deltaEAvg |-> Get(e, "deltaE2000Avg"), deltaEMax |-> Get(e, "deltaE2000Max"),
     worst |-> Get(e, "deltaEWorstPatch"), test |-> Get(e, "test")]

StudioRow(e) ==
    [suite |-> Get(e, "suite"), label |-> Get(e, "label"),
     meanAbs |-> Get(e, "lutMeanAbsErr"), maxAbs |-> Get(e, "lutMaxAbsErr"),
     worst |-> Get(e, "lutWorstPatch"), test |-> Get(e, "test")]

OcioRow(e) ==
    [suite |-> Get(e, "suite"), label |-> Get(e, "label"),
     name |-> Get(e, "ocioBakeName"), meanAbs |-> Get(e, "ocioBakeMeanAbsErr"),
     maxAbs |-> Get(e, "ocioBakeMaxAbsErr"), test |-> Get(e, "test")]

\* the events of a list passing a gate, in list order
PerfEvents(es) == SelectSeq(es, LAMBDA e : PerfGate(e))
MemEvents(es) == SelectSeq(es, LAMBDA e : MemGate(e))
ColorEvents(es) == SelectSeq(es, LAMBDA e : ColorGate(e))
StudioEvents(es) == SelectSeq(es, LAMBDA e : StudioGate(e))
OcioEvents(es) == SelectSeq(es, LAMBDA e : OcioGate(e))

\* a categorizer whose five tests are chained by elif: an event goes to the
\* first category whose gate it passes
CategorizeFirstMatch(es) ==
    LET perf == PerfEvents(es)
        mem == SelectSeq(es, LAMBDA e : ~PerfGate(e) /\ MemGate(e))
        color == SelectSeq(es, LAMBDA e : ~PerfGate(e) /\ ~MemGate(e) /\ ColorGate(e))
        studio == SelectSeq(es, LAMBDA e : ~PerfGate(e) /\ ~MemGate(e)
                                           /\ ~ColorGate(e) /\ StudioGate(e))
        ocio == SelectSeq(es, LAMBDA e : ~PerfGate(e) /\ ~MemGate(e)
                                         /\ ~ColorGate(e) /\ ~StudioGate(e)
                                         /\ OcioGate(e))
    IN  [perf   |-> [i \in 1..Len(perf) |-> PerfRow(perf[i])],
         mem    |-> [i \in 1..Len(mem) |-> MemRow(mem[i])],
         color  |-> [i \in 1..Len(color) |-> ColorRow(color[i])],
         studio |-> [i \in 1..Len(studio) |-> StudioRow(studio[i])],
         ocio   |-> [i \in 1..Len(ocio) |-> OcioRow(ocio[i])]]

\* the five row lists after the loop over last_by_key.values()
Categorize(es) ==
    [perf   |-> [i \in 1..Len(PerfEvents(es)) |-> PerfRow(PerfEvents(es)[i])],
     mem    |-> [i \in 1..Len(MemEvents(es)) |-> MemRow(MemEvents(es)[i])],
     color  |-> [i \in 1..Len(ColorEvents(es)) |-> ColorRow(ColorEvents(es)[i])],
     studio |-> [i \in 1..Len(StudioEvents(es)) |-> StudioRow(StudioEvents(es)[i])],
     ocio   |-> [i \in 1..Len(OcioEvents(es)) |-> OcioRow(OcioEvents(es)[i])]]

-----------------------------------------------------------------------------
(* Report Renderer: the sort *)

PerfSortKey(r) == <<StrRank(OrEmpty(r.label)), OrZero(r.h)>>
LabelTestSortKey(r) == <<StrRank(OrEmpty(r.label)), StrRank(OrEmpty(r.test))>>
OcioSortKey(r) == <<StrRank(Safe(r.name)), StrRank(OrEmpty(r.test))>>

\* tuple comparison of two sort keys
KeyLess(a, b) == a[1] < b[1] \/ (a[1] = b[1] /\ a[2] < b[2])

\* x put into the sorted list s behind every element that is not greater
InsertSorted(s, x) ==
    LET after == {i \in 1..Len(s) : KeyLess(x.key, s[i].key)}
        p == IF after = {} THEN Len(s) + 1
             ELSE CHOOSE i \in after : \A j \in after : i <= j
    IN  SubSeq(s, 1, p - 1) \o <<x>> \o SubSeq(s, p, Len(s))

\* list.sort(key=...): stable, ascending; s holds [key, row] pairs
RECURSIVE SortKeyed(_)
SortKeyed(s) ==
    IF s = <<>> THEN <<>>
    ELSE InsertSorted(SortKeyed(SubSeq(s, 1, Len(s) - 1)), s[Len(s)])

SortPerf(rows) ==
    LET s == SortKeyed([i \in 1..Len(rows) |->
                           [key |-> PerfSortKey(rows[i]), row |-> rows[i]]])
    IN  [i \in 1..Len(s) |-> s[i].row]

SortLabelTest(rows) ==
    LET s == SortKeyed([i \in 1..Len(rows) |->
                           [key |-> LabelTestSortKey(rows[i]), row |-> rows[i]]])
    IN  [i \in 1..Len(s) |-> s[i].row]

SortOcio(rows) ==
    LET s == SortKeyed([i \in 1..Len(rows) |->
                           [key |-> OcioSortKey(rows[i]), row |-> rows[i]]])
    IN  [i \in 1..Len(s) |-> s[i].row]

-----------------------------------------------------------------------------
(* Report Renderer: the text of summary.md *)

\* a plain line of text
P(s) == <<s>>

\* datetime.now(timezone.utc).strftime("%Y-%m-%dT%H:%M:%SZ") at second t < 10
Strftime(t) == "1970-01-01T00:00:0" \o ToString(t) \o "Z"

Header(run, events, t) ==
    [runID |-> run,
     count |-> Len(events),
     generatedUTC |-> Strftime(t),
     osVersion |-> IF events # <<>> THEN Get(events[1], "osVersion") ELSE None,
     arch |-> IF events # <<>> THEN Get(events[1], "processArch") ELSE None,
     firstTimestamp |->
         IF events # <<>> THEN Get(events[1], "timestampISO8601") ELSE None]

GeneratedLine(stamp) == P("- generatedUTC: '" \o stamp \o "'")

RenderHeader(header) ==
    <<P("# MetaVis Metrics Run"), P(""),
      P("- runID: '" \o header.runID \o "'"),
      P("- events: '" \o ToString(header.count) \o "'")>>
    \o (IF TruthyText(header.osVersion)
        THEN <<P("- os: '" \o header.osVersion[1] \o "'")>> ELSE <<>>)
    \o (IF TruthyText(header.arch)
        THEN <<P("- arch: '" \o header.arch[1] \o "'")>> ELSE <<>>)
    \o (IF header.generatedUTC # "" THEN <<GeneratedLine(header.generatedUTC)>>
        ELSE <<>>)
    \o <<P("")>>

\* res = f"{r['w']}x{r['h']}" if r.get("w") and r.get("h") else ""
Res(r) ==
    IF TruthyNum(r.w) /\ TruthyNum(r.h)
    THEN ToString(r.w[1]) \o "x" \o ToString(r.h[1])
    ELSE ""

\* r.get('frames', '') on a row dict, which always holds the key 'frames'
FramesCell(r) == Str(r.frames)

PerfLine(r) ==
    <<Safe(r.label), Res(r), FramesCell(r), FmtMs(r.avgMs), Safe(r.suite),
      Safe(r.test)>>

MemLine(r) ==
    <<Safe(r.label), Fmt(r.peakRSSDeltaMB, 3), Safe(r.message), Safe(r.suite),
      Safe(r.test)>>

ColorLine(r) ==
    <<Safe(r.label), Fmt(r.deltaEAvg, 4), Fmt(r.deltaEMax, 4), Safe(r.worst),
      Safe(r.suite), Safe(r.test)>>

StudioLine(r) ==
    <<Safe(r.label), Fmt(r.meanAbs, 8), Fmt(r.maxAbs, 8), Safe(r.worst),
      Safe(r.suite), Safe(r.test)>>

OcioLine(r) ==
    <<Safe(r.name), Fmt(r.meanAbs, 10), Fmt(r.maxAbs, 10), Safe(r.suite),
      Safe(r.test)>>

PerfTitle == "## Performance"
MemTitle == "## Memory"
\* the source writes the Greek capital delta where these texts have "d"
ColorTitle == "## Color (dE2000)"
StudioTitle == "## Studio LUT Reference Match"
OcioTitle == "## OCIO Re-bake Match"
FilesTitle == "## Files"

PerfEmpty == "(no perf events found for this run)"
MemEmpty == "(no memory events found for this run)"
ColorEmpty == "(no dE events found for this run)"
StudioEmpty == "(no Studio LUT match events found for this run)"
OcioEmpty == "(no OCIO bake match events found for this run)"

PerfHead ==
    << <<"label", "res", "frames", "avgMs", "suite", "test">>,
       <<"---", "---:", "---:", "---:", "---", "---">> >>
MemHead ==
    << <<"label", "peakRSSDeltaMB", "message", "suite", "test">>,
       <<"---", "---:", "---", "---", "---">> >>
ColorHead ==
    << <<"label", "dE avg", "dE max", "worst", "suite", "test">>,
       <<"---", "---:", "---:", "---", "---", "---">> >>
StudioHead ==
    << <<"label", "meanAbsErr", "maxAbsErr", "worst", "suite", "test">>,
       <<"---", "---:", "---:", "---", "---", "---">> >>
OcioHead ==
    << <<"name", "meanAbsErr", "maxAbsErr", "suite", "test">>,
       <<"---", "---:", "---:", "---", "---">> >>

\* one section: its title, then the placeholder or the table, then a blank line
Section(title, empty, head, lines) ==
    <<P(title), P("")>>
    \o (IF lines = <<>> THEN <<P(empty)>> ELSE head \o lines)
    \o <<P("")>>

PerfSection(rows) ==
    Section(PerfTitle, PerfEmpty, PerfHead,
            [i \in 1..Len(rows) |-> PerfLine(rows[i])])
MemSection(rows) ==
    Section(MemTitle, MemEmpty, MemHead,
            [i \in 1..Len(rows) |-> MemLine(rows[i])])
ColorSection(rows) ==
    Section(ColorTitle, ColorEmpty, ColorHead,
            [i \in 1..Len(rows) |-> ColorLine(rows[i])])
StudioSection(rows) ==
    Section(StudioTitle, StudioEmpty, StudioHead,
            [i \in 1..Len(rows) |-> StudioLine(rows[i])])
OcioSection(rows) ==
    Section(OcioTitle, OcioEmpty, OcioHead,
            [i \in 1..Len(rows) |-> OcioLine(rows[i])])

\* an out dir d stands for <repo-root>/test_outputs/metrics/d
RelToRepo(dir, file) == "test_outputs/metrics/" \o dir \o "/" \o file

FilesSection(dir) ==
    <<P(FilesTitle), P(""),
      P("- events: '" \o RelToRepo(dir, "events.jsonl") \o "'"),
      P("- summary: '" \o RelToRepo(dir, "summary.md") \o "'")>>

\* sorted row lists of the run's events
SortedRows(events) ==
    LET rows == Categorize(DictValues(LastByKey(events)))
    IN  [perf   |-> SortPerf(rows.perf),
         mem    |-> SortLabelTest(rows.mem),
         color  |-> SortLabelTest(rows.color),
         studio |-> SortLabelTest(rows.studio),
         ocio   |-> SortOcio(rows.ocio)]

\* everything main writes to summary.md
RenderSummary(run, dir, events, t) ==
    LET rows == SortedRows(events)
    IN  RenderHeader(Header(run, events, t))
        \o PerfSection(rows.perf) \o MemSection(rows.mem)
        \o ColorSection(rows.color) \o StudioSection(rows.studio)
        \o OcioSection(rows.ocio) \o FilesSection(dir)

\* everything main writes to events.jsonl
RenderEvents(events) == [i \in 1..Len(events) |-> JsonDumps(events[i])]

-----------------------------------------------------------------------------
(* Index Updater *)

NL == "\n"
CR == "\r"

\* the text written when README.md does not exist
Preamble ==
    <<"# Metrics Runs", NL, NL,
      "Each run is stored under 'test_outputs/metrics/<runID>/'.", NL, NL,
      "Run with: 'scripts/run_metrics.sh'", NL, NL,
      "## Runs", NL, NL>>

\* "## Runs\n\n"
RunsMarker == <<"## Runs", NL, NL>>

\* os.path.relpath(out_dir, metrics_root) of the out dir <metrics_root>/dir
RelToIndex(dir) == dir

\* the text of a run id as fragments: a run id may hold a line break
RunPieces(run) == IF run = "a\rb" THEN <<"a", CR, "b">> ELSE <<run>>

\* line = f"- `{args.run_id}`: `{rel_run}/summary.md`\n"
EntryLine(run, dir) ==
    LET p == RunPieces(run)
        n == Len(p)
        tail == "': '" \o RelToIndex(dir) \o "/summary.md'"
    IN  IF n = 1 THEN <<"- '" \o p[1] \o tail, NL>>
        ELSE <<"- '" \o p[1]>> \o SubSeq(p, 2, n - 1) \o <<p[n] \o tail, NL>>

\* Path.read_text: text mode turns "\r\n" and a lone "\r" into "\n"
RECURSIVE ReadText(_)
ReadText(b) ==
    IF b = <<>> THEN <<>>
    ELSE IF b[1] = CR
         THEN IF Len(b) >= 2 /\ b[2] = NL
              THEN <<NL>> \o ReadText(SubSeq(b, 3, Len(b)))
              ELSE <<NL>> \o ReadText(Tail(b))
         ELSE <<b[1]>> \o ReadText(Tail(b))

\* Path.write_text on Linux: "\n" is written as it is
WriteText(t) == t

\* the positions at which pat occurs in s
Occurrences(s, pat) ==
    {i \in 1..(Len(s) - Len(pat) + 1) : SubSeq(s, i, i + Len(pat) - 1) = pat}

\* pat in s
Contains(s, pat) == Occurrences(s, pat) # {}

\* s.split(pat, 1)
SplitOnce(s, pat) ==
    IF ~Contains(s, pat) THEN <<s>>
    ELSE LET i == CHOOSE i \in Occurrences(s, pat) :
                      \A j \in Occurrences(s, pat) : i <= j
         IN  <<SubSeq(s, 1, i - 1), SubSeq(s, i + Len(pat), Len(s))>>

\* the text the last write_text of main is given
InsertEntry(existing, line) ==
    LET parts == SplitOnce(existing, RunsMarker)
    IN  IF Len(parts) = 2
        THEN parts[1] \o RunsMarker \o line \o parts[2]
        ELSE existing \o <<NL>> \o line

\* the write_text calls of the index update on the index file idx, in order
IndexWrites(idx, run, dir) ==
    LET onDisk == IF idx = None THEN WriteText(Preamble) ELSE idx[1]
        existing == ReadText(onDisk)
        line == EntryLine(run, dir)
    IN  (IF idx = None
         THEN <<[file |-> "index", data |-> WriteText(Preamble)]>> ELSE <<>>)
        \o (IF ~Contains(existing, line)
            THEN <<[file |-> "index",
                    data |-> WriteText(InsertEntry(existing, line))]>>
            ELSE <<>>)

-----------------------------------------------------------------------------
(* main *)

\* whether main raises before it writes anything
MainRaises(log) == ReadJsonl(log).raised \/ FilterRaises(ReadJsonl(log).out)

\* the events of the run, in log order
RunEvents(log, run) == FilterRun(ReadJsonl(log).out, run)

\* the writes of an invocation that does not raise, in order: events.jsonl,
\* summary.md, then those of the index update
MainWrites(run, dir, t, log, idx) ==
    LET events == RunEvents(log, run)
    IN  <<[file |-> "events", data |-> RenderEvents(events)],
          [file |-> "summary", data |-> RenderSummary(run, dir, events, t)]>>
        \o IndexWrites(idx, run, dir)

\* files after the writes ws, each a full overwrite
RECURSIVE ApplyWrites(_, _)
ApplyWrites(files, ws) ==
    IF ws = <<>> THEN files
    ELSE ApplyWrites([files EXCEPT ![ws[1].file] = Some(ws[1].data)], Tail(ws))

\* files when the write w fails: "open" leaves the file as it was; "write"
\* fails after open("w") has truncated the file and k pieces were flushed
FailedWrite(files, w, mode, k) ==
    IF mode = "open" THEN files
    ELSE [files EXCEPT ![w.file] = Some(SubSeq(w.data, 1, k))]

FilesOf(dir) ==
    [events |-> eventsFile[dir], summary |-> summaryFile[dir], index |-> indexFile]

NoCall ==
    [run |-> "", dir |-> "", exit |-> "none", rerun |-> FALSE, indexWrites |-> 0,
     before |-> [events |-> None, summary |-> None, index |-> None]]

\* whether the invocation before this one was for the same arguments and
\* completed
IsRerun(run, dir) == call.exit = "ok" /\ call.run = run /\ call.dir = dir

Store(dir, files) ==
    /\ eventsFile' = [eventsFile EXCEPT ![dir] = files.events]
    /\ summaryFile' = [summaryFile EXCEPT ![dir] = files.summary]
    /\ indexFile' = files.index

\* one invocation of main with no I/O error
Summarize(run, dir) ==
    /\ Len(history) < MaxCalls
    /\ IF MainRaises(perfLog)
       THEN /\ call' = [run |-> run, dir |-> dir, exit |-> "error",
                        rerun |-> IsRerun(run, dir), indexWrites |-> 0,
                        before |-> FilesOf(dir)]
            /\ UNCHANGED <<perfLog, eventsFile, summaryFile, indexFile, now,
                           history>>
       ELSE LET ws == MainWrites(run, dir, now, perfLog, indexFile)
            IN  /\ Store(dir, ApplyWrites(FilesOf(dir), ws))
                /\ call' = [run |-> run, dir |-> dir, exit |-> "ok",
                            rerun |-> IsRerun(run, dir),
                            indexWrites |-> Len(ws) - 2,
                            before |-> FilesOf(dir)]
                /\ history' = Append(history, <<run, dir>>)
                /\ UNCHANGED <<perfLog, now>>

\* one invocation of main in which the j-th write fails with an OSError
SummarizeWriteFails(run, dir, j, mode, k) ==
    /\ ~MainRaises(perfLog)
    /\ LET ws == MainWrites(run, dir, now, perfLog, indexFile)
       IN  /\ j \in 1..Len(ws)
           /\ mode = "write" => k \in 0..(Len(ws[j].data) - 1)
           /\ mode = "open" => k = 0
           /\ Store(dir, FailedWrite(ApplyWrites(FilesOf(dir), SubSeq(ws, 1, j - 1)),
                                     ws[j], mode, k))
           /\ call' = [run |-> run, dir |-> dir, exit |-> "error",
                       rerun |-> IsRerun(run, dir),
                       indexWrites |-> IF j <= 2 THEN 0 ELSE j - 2,
                       before |-> FilesOf(dir)]
    /\ UNCHANGED <<perfLog, now, history>>

\* a second passes
Tick ==
    /\ now < MaxClock
    /\ now' = now + 1
    /\ UNCHANGED <<perfLog, eventsFile, summaryFile, indexFile, call, history>>

-----------------------------------------------------------------------------
(* The inputs of the model *)

RunIds == {"A", "B", "a\rb"}

\* an out dir d stands for <repo-root>/test_outputs/metrics/d
OutDirs == {"A", "B"}

\* every sequence over S of length at most n
SeqsUpTo(S, n) == UNION {[1..k -> S] : k \in 0..n}

RunField(run) == "runID" :> Some(run)

\* Lines of the pipeline specification: the three kinds of line that are not
\* an event, an event of another run, and events of run A that share or do
\* not share a probe key, one of them with a JSON null
PipelineEvents ==
    {RunField("A") @@ ("avgMs" :> Some(v)) : v \in {1, 2}}
    \cup {RunField("A") @@ ("label" :> Some("a")) @@ ("osVersion" :> Some("s"))
            @@ ("avgMs" :> Some(v)) : v \in {1, 2}}
    \cup {RunField("A") @@ ("avgMs" :> None) @@ ("peakRSSDeltaMB" :> Some(1))}
    \cup {RunField("B") @@ ("avgMs" :> Some(3))}

PipelineLines ==
    {BlankLine, MalformedLine, ScalarLine, FatalLine}
    \cup {ObjectLine(e) : e \in PipelineEvents}

PipelineArgs == {<<"A", "A">>}

\* Events of the key specification: events of run A with each probe-key
\* field alone present or none, under two payloads, and one event of run B
KeyFields == {"suite", "label", "width", "height", "test"}
NumericFields ==
    {"width", "height", "frames", "avgMs", "peakRSSDeltaMB", "deltaE2000Avg",
     "deltaE2000Max", "lutMeanAbsErr", "lutMaxAbsErr", "ocioBakeMeanAbsErr",
     "ocioBakeMaxAbsErr"}
TextFields ==
    {"suite", "label", "test", "message", "deltaEWorstPatch", "lutWorstPatch",
     "ocioBakeName"}

KeyVariants ==
    {<<>>} \cup {f :> (IF f \in NumericFields THEN Some(1) ELSE Some("a")) :
                    f \in KeyFields}

KeyEvents ==
    {RunField("A") @@ k @@ ("avgMs" :> Some(v)) : k \in KeyVariants, v \in {1, 2}}
    \cup {RunField("B") @@ ("avgMs" :> Some(3))}

KeyLines == {ObjectLine(e) : e \in KeyEvents}

\* Events of the row specification: events of run A carrying at most
\* MaxPresent of the fields a row reads, numbers 0 or 1 and the text "a"
RowFields == NumericFields \cup TextFields

RECURSIVE SubsetsUpTo(_, _)
SubsetsUpTo(S, k) ==
    IF k = 0 THEN {{}}
    ELSE LET smaller == SubsetsUpTo(S, k - 1)
         IN  smaller \cup {s \cup {f} : s \in smaller, f \in S}

RowEvents ==
    UNION {{RunField("A") @@
              [f \in S |-> IF f \in NumericFields THEN Some(c[f]) ELSE Some("a")] :
                c \in [S \cap NumericFields -> {0, 1}]} :
           S \in SubsetsUpTo(RowFields, MaxPresent)}

\* Events of the order specification: events of run A for each table sort,
\* among them events that differ in their probe key and agree on the sort key
OrderEvents ==
    {RunField("A") @@ l @@ h @@ ("width" :> Some(w)) @@ ("avgMs" :> Some(1)) :
        l \in {<<>>, "label" :> Some("a"), "label" :> Some("b")},
        h \in {<<>>, "height" :> Some(1)}, w \in {1, 2}}
    \cup {RunField("A") @@ ("label" :> Some("a")) @@ ("suite" :> Some(u))
             @@ ("peakRSSDeltaMB" :> Some(1)) : u \in {"m", "n"}}
    \cup {RunField("A") @@ ("ocioBakeName" :> Some("a")) @@ ("suite" :> Some(u))
             @@ ("ocioBakeMeanAbsErr" :> Some(1)) : u \in {"m", "n"}}

OrderLines == {ObjectLine(e) : e \in OrderEvents}

\* Fragments of the initial index content of the index specification
IndexAlphabet == {"## Runs", NL, CR, "x", EntryLine("A", "A")[1]}

IndexArgs == {<<"A", "A">>, <<"a\rb", "B">>}

-----------------------------------------------------------------------------
(* Specifications *)

InitFiles ==
    /\ eventsFile = [d \in OutDirs |-> None]
    /\ summaryFile = [d \in OutDirs |-> None]
    /\ now = 0
    /\ call = NoCall
    /\ history = <<>>

\* The pipeline: any log of at most MaxLog lines, or none; no index yet
Init ==
    /\ perfLog \in {None} \cup {Some(l) : l \in SeqsUpTo(PipelineLines, MaxLog)}
    /\ indexFile = None
    /\ InitFiles

Next ==
    \/ \E a \in PipelineArgs : Summarize(a[1], a[2])
    \/ Tick

Spec == Init /\ [][Next]_vars

\* The probe keys: any log of at most MaxLog events of KeyEvents
InitKeys ==
    /\ perfLog \in {Some(l) : l \in SeqsUpTo(KeyLines, MaxLog)}
    /\ indexFile = None
    /\ InitFiles

NextKeys == \E a \in PipelineArgs : Summarize(a[1], a[2])

SpecKeys == InitKeys /\ [][NextKeys]_vars

\* The rows: a log of one event of RowEvents
InitRows ==
    /\ perfLog \in {Some(<<ObjectLine(e)>>) : e \in RowEvents}
    /\ indexFile = None
    /\ InitFiles

NextRows == \E a \in PipelineArgs : Summarize(a[1], a[2])

SpecRows == InitRows /\ [][NextRows]_vars

\* The row order: any log of at most MaxLog events of OrderEvents
InitOrder ==
    /\ perfLog \in {Some(l) : l \in SeqsUpTo(OrderLines, MaxLog)}
    /\ indexFile = None
    /\ InitFiles

NextOrder == \E a \in PipelineArgs : Summarize(a[1], a[2])

SpecOrder == InitOrder /\ [][NextOrder]_vars

\* The index: any initial content of at most MaxIndexLen fragments, or no
\* index file; the log is missing
InitIndex ==
    /\ perfLog = None
    /\ indexFile \in {None} \cup {Some(s) : s \in SeqsUpTo(IndexAlphabet, MaxIndexLen)}
    /\ InitFiles

NextIndex == \E a \in IndexArgs : Summarize(a[1], a[2])

SpecIndex == InitIndex /\ [][NextIndex]_vars

\* Write failures: an index that is missing or holds fragments of the marker
InitFail ==
    /\ perfLog = None
    /\ indexFile \in {None} \cup
           {Some(s) : s \in SeqsUpTo({"## Runs", NL}, MaxIndexLen)}
    /\ InitFiles

\* a failed invocation ends the behaviour: the error is left to the caller
NextFail ==
    \/ \E a \in PipelineArgs : call.exit # "error" /\ Summarize(a[1], a[2])
    \/ \E a \in PipelineArgs, j \in 1..4, mode \in {"open", "write"},
          k \in 0..(Len(Preamble) + MaxIndexLen + 2) :
           call.exit # "error" /\ SummarizeWriteFails(a[1], a[2], j, mode, k)

SpecFail == InitFail /\ [][NextFail]_vars

-----------------------------------------------------------------------------
(* What the properties read *)

\* the lines of the log, none when the file is missing
LogLines == IF perfLog = None THEN <<>> ELSE perfLog[1]

\* the last invocation ran to its end
Completed == call.exit = "ok"

\* the positions of the log lines that are events of the run
EventIndices(run) ==
    {i \in 1..Len(LogLines) :
        /\ LogLines[i].kind = "object"
        /\ "runID" \in DOMAIN LogLines[i].obj
        /\ LogLines[i].obj["runID"] = Some(run)}

\* the k-th smallest member of a set of positions
Kth(I, k) == CHOOSE i \in I : Cardinality({j \in I : j < i}) = k - 1

\* the probe key of an event, absent fields as None
KeyOf(e) == [f \in KeyFields |-> IF f \in DOMAIN e THEN e[f] ELSE None]

\* the positions of the run's events that no later event of the run with the
\* same probe key follows
Survivors(run) ==
    {i \in EventIndices(run) :
        \A j \in EventIndices(run) :
            j > i => KeyOf(LogLines[j].obj) # KeyOf(LogLines[i].obj)}

\* the summary.md the last invocation wrote
Summary == summaryFile[call.dir][1]

\* the table lines of a section of summary.md, none under the placeholder
TableRows(lines, title) ==
    LET i == CHOOSE i \in 1..Len(lines) : lines[i] = P(title)
        end == CHOOSE j \in (i + 2)..Len(lines) :
                   /\ lines[j] = P("")
                   /\ \A m \in (i + 2)..(j - 1) : lines[m] # P("")
        body == SubSeq(lines, i + 2, end - 1)
    IN  IF Len(body) <= 2 THEN <<>> ELSE SubSeq(body, 3, Len(body))

\* rows holds exactly one line L(e) for each position of I at which the event
\* e passes the gate G, and no other line
RowsAreOf(rows, I, G(_), L(_)) ==
    LET from == {i \in I : G(LogLines[i].obj)}
        lines == {rows[j] : j \in 1..Len(rows)}
                 \cup {L(LogLines[i].obj) : i \in from}
    IN  \A x \in lines :
            Cardinality({j \in 1..Len(rows) : rows[j] = x})
            = Cardinality({i \in from : L(LogLines[i].obj) = x})

-----------------------------------------------------------------------------
(* C1 *)

\* C1: deduplication is last-write-wins by log order. Of the run's events
\* sharing a probe key (absent fields counting as None) only the one latest in
\* the log survives, and the rows of every category are exactly the rows of
\* the surviving events that pass the category's gate.
C1_LastWriteWins ==
    Completed =>
        /\ RowsAreOf(TableRows(Summary, PerfTitle), Survivors(call.run),
                     PerfGate, LAMBDA e : PerfLine(PerfRow(e)))
        /\ RowsAreOf(TableRows(Summary, MemTitle), Survivors(call.run),
                     MemGate, LAMBDA e : MemLine(MemRow(e)))
        /\ RowsAreOf(TableRows(Summary, ColorTitle), Survivors(call.run),
                     ColorGate, LAMBDA e : ColorLine(ColorRow(e)))
        /\ RowsAreOf(TableRows(Summary, StudioTitle), Survivors(call.run),
                     StudioGate, LAMBDA e : StudioLine(StudioRow(e)))
        /\ RowsAreOf(TableRows(Summary, OcioTitle), Survivors(call.run),
                     OcioGate, LAMBDA e : OcioLine(OcioRow(e)))

\* a completed run whose log holds two events of the run with one probe key
\* and different payloads, and a third event of the run with another key
C1_Witness ==
    /\ Completed
    /\ \E i, j, m \in EventIndices(call.run) :
          /\ i < j
          /\ KeyOf(LogLines[i].obj) = KeyOf(LogLines[j].obj)
          /\ LogLines[i].obj # LogLines[j].obj
          /\ KeyOf(LogLines[m].obj) # KeyOf(LogLines[i].obj)
    /\ Len(TableRows(Summary, PerfTitle)) = 2

-----------------------------------------------------------------------------
(* C2 *)

\* C2: a completed re-run for the same run and out dir leaves
\* events.jsonl and summary.md byte-identical, whenever it runs.
C2_RerunByteIdentical ==
    (Completed /\ call.rerun) =>
        /\ eventsFile[call.dir] = call.before.events
        /\ summaryFile[call.dir] = call.before.summary

-----------------------------------------------------------------------------
(* C3 *)

\* C3: the index update is idempotent. A completed invocation that repeats
\* the one before it, for the same run and out dir, leaves the index file as
\* it was and performs no write to it.
C3_IndexIdempotent ==
    (Completed /\ call.rerun) =>
        /\ indexFile = call.before.index
        /\ call.indexWrites = 0

-----------------------------------------------------------------------------
(* C4 *)

\* the header line "- events: `n`"
CountLine(n) == P("- events: '" \o ToString(n) \o "'")

\* every line of rows is the line L(e) of an event e at a position of I
RowsComeFrom(rows, I, L(_)) ==
    \A j \in 1..Len(rows) : \E i \in I : rows[j] = L(LogLines[i].obj)

\* C4: the header count and events.jsonl are exactly the log's events whose
\* runID equals the requested identifier, in log order and before
\* deduplication, and every rendered row is the row of such an event.
C4_RunSlice ==
    Completed =>
        LET I == EventIndices(call.run)
        IN  /\ Summary[4] = CountLine(Cardinality(I))
            /\ eventsFile[call.dir]
                   = Some([k \in 1..Cardinality(I) |-> LogLines[Kth(I, k)]])
            /\ RowsComeFrom(TableRows(Summary, PerfTitle), I,
                            LAMBDA e : PerfLine(PerfRow(e)))
            /\ RowsComeFrom(TableRows(Summary, MemTitle), I,
                            LAMBDA e : MemLine(MemRow(e)))
            /\ RowsComeFrom(TableRows(Summary, ColorTitle), I,
                            LAMBDA e : ColorLine(ColorRow(e)))
            /\ RowsComeFrom(TableRows(Summary, StudioTitle), I,
                            LAMBDA e : StudioLine(StudioRow(e)))
            /\ RowsComeFrom(TableRows(Summary, OcioTitle), I,
                            LAMBDA e : OcioLine(OcioRow(e)))

\* a completed run over a log that holds two events of the run sharing a
\* probe key and an event of another run
C4_Witness ==
    /\ Completed
    /\ \E i, j \in EventIndices(call.run) :
          i < j /\ KeyOf(LogLines[i].obj) = KeyOf(LogLines[j].obj)
    /\ \E i \in 1..Len(LogLines) :
          /\ LogLines[i].kind = "object"
          /\ i \notin EventIndices(call.run)
    /\ Summary[4] = CountLine(2)

-----------------------------------------------------------------------------
(* C5 *)

\* C5: a log line that is not an event mapping never aborts the pipeline.
\* Every invocation runs to its end, and the header counts the events of the
\* run only.
C5_BadLinesSkipped ==
    call.exit # "none" =>
        /\ Completed
        /\ Summary[4] = CountLine(Cardinality(EventIndices(call.run)))

-----------------------------------------------------------------------------
(* C6 *)

\* a section of summary.md that shows its placeholder
ShowsPlaceholder(lines, title, empty) ==
    \E i \in 1..(Len(lines) - 3) :
        /\ lines[i] = P(title)
        /\ lines[i + 1] = P("")
        /\ lines[i + 2] = P(empty)
        /\ lines[i + 3] = P("")

\* C6: when the log is missing or holds no event of the run, the invocation
\* runs to its end and the report has the count 0 and the placeholder in each
\* of its five sections.
C6_EmptyReport ==
    (call.exit # "none" /\ EventIndices(call.run) = {}) =>
        /\ Completed
        /\ Summary[4] = CountLine(0)
        /\ ShowsPlaceholder(Summary, PerfTitle, PerfEmpty)
        /\ ShowsPlaceholder(Summary, MemTitle, MemEmpty)
        /\ ShowsPlaceholder(Summary, ColorTitle, ColorEmpty)
        /\ ShowsPlaceholder(Summary, StudioTitle, StudioEmpty)
        /\ ShowsPlaceholder(Summary, OcioTitle, OcioEmpty)

-----------------------------------------------------------------------------
(* C7 *)

\* the index text an invocation starts from once the file exists
IndexTextBefore ==
    ReadText(IF call.before.index = None THEN Preamble ELSE call.before.index[1])

\* C7: the index update is all-or-nothing under a write failure. After an
\* invocation in which a write of the index file failed, the file is as it
\* was before the invocation or holds the new line fully inserted.
C7_IndexAllOrNothing ==
    (call.exit = "error" /\ call.indexWrites > 0) =>
        \/ indexFile = call.before.index
        \/ indexFile
               = Some(InsertEntry(IndexTextBefore, EntryLine(call.run, call.dir)))

-----------------------------------------------------------------------------
(* C8 *)

\* the event carries the field with a value
Has(e, f) == f \in DOMAIN e /\ e[f] # None

\* the number of surviving events of the run that carry one of the fields
Carrying(run, fields) ==
    Cardinality({i \in Survivors(run) : \E f \in fields : Has(LogLines[i].obj, f)})

\* C8: category gating is independent per category. Each category holds one
\* row for each surviving event that carries the category's gate field, or
\* one of its two gate fields, whatever other fields the event carries.
C8_GatesIndependent ==
    Completed =>
        /\ Len(TableRows(Summary, PerfTitle)) = Carrying(call.run, {"avgMs"})
        /\ Len(TableRows(Summary, MemTitle))
               = Carrying(call.run, {"peakRSSDeltaMB"})
        /\ Len(TableRows(Summary, ColorTitle))
               = Carrying(call.run, {"deltaE2000Avg", "deltaE2000Max"})
        /\ Len(TableRows(Summary, StudioTitle))
               = Carrying(call.run, {"lutMeanAbsErr", "lutMaxAbsErr"})
        /\ Len(TableRows(Summary, OcioTitle))
               = Carrying(call.run, {"ocioBakeMeanAbsErr", "ocioBakeMaxAbsErr"})

\* a completed run whose one event carries the gate fields of three
\* categories, one of them with the value 0, and has a row in each
C8_Witness ==
    /\ Completed
    /\ Len(LogLines) = 1
    /\ LogLines[1].obj["runID"] = Some(call.run)
    /\ Has(LogLines[1].obj, "avgMs")
    /\ Get(LogLines[1].obj, "peakRSSDeltaMB") = Some(0)
    /\ Has(LogLines[1].obj, "lutMaxAbsErr")
    /\ Len(TableRows(Summary, PerfTitle)) = 1
    /\ Len(TableRows(Summary, MemTitle)) = 1
    /\ Len(TableRows(Summary, StudioTitle)) = 1
    /\ Len(TableRows(Summary, ColorTitle)) = 0

-----------------------------------------------------------------------------
(* C9 *)

\* the entry line is a whole line of the text
HasLine(text, line) ==
    \E i \in Occurrences(text, line) : i = 1 \/ text[i - 1] = NL

NoRepeats(s) == \A i, j \in 1..Len(s) : s[i] = s[j] => i = j

\* the entry lines of the invocations of s, the last one first
RECURSIVE NewestFirst(_)
NewestFirst(s) ==
    IF s = <<>> THEN <<>>
    ELSE EntryLine(s[Len(s)][1], s[Len(s)][2])
         \o NewestFirst(SubSeq(s, 1, Len(s) - 1))

\* C9: when no line of the index file equals the run's entry line, the index
\* update writes it: right after the Runs marker when the file has one, every
\* other byte kept in order, and at the end of the file otherwise; after
\* invocations for distinct runs the index lists each run once, newest first.
C9_InsertsNewestFirst ==
    Completed =>
        LET old == IF call.before.index = None THEN Preamble
                   ELSE call.before.index[1]
            line == EntryLine(call.run, call.dir)
        IN  /\ ~HasLine(ReadText(old), line) =>
                  IF Contains(old, RunsMarker)
                  THEN \E i \in Occurrences(old, RunsMarker) :
                           indexFile[1] = SubSeq(old, 1, i + 2) \o line
                                          \o SubSeq(old, i + 3, Len(old))
                  ELSE \E sep \in {<<>>, <<NL>>} :
                           indexFile[1] = old \o sep \o line
            /\ (NoRepeats(history) /\ Contains(indexFile[1], Preamble)) =>
                  indexFile[1] = Preamble \o NewestFirst(history)

-----------------------------------------------------------------------------
(* C10 *)

\* C10: a field absent on the source event renders as an empty cell. For a
\* log of one event, in every category in which it has a row, each cell
\* whose field (for the resolution, both of its fields) the event lacks is
\* the empty string.
C10_AbsentIsEmpty ==
    (Completed /\ Len(LogLines) = 1 /\ EventIndices(call.run) = {1}) =>
        LET e == LogLines[1].obj
            Blank(rows, col, fields) ==
                (rows # <<>> /\ \A f \in fields : ~Has(e, f)) => rows[1][col] = ""
            perf == TableRows(Summary, PerfTitle)
            mem == TableRows(Summary, MemTitle)
            color == TableRows(Summary, ColorTitle)
            studio == TableRows(Summary, StudioTitle)
            ocio == TableRows(Summary, OcioTitle)
        IN  /\ Blank(perf, 1, {"label"}) /\ Blank(perf, 2, {"width", "height"})
            /\ Blank(perf, 3, {"frames"}) /\ Blank(perf, 4, {"avgMs"})
            /\ Blank(perf, 5, {"suite"}) /\ Blank(perf, 6, {"test"})
            /\ Blank(mem, 1, {"label"}) /\ Blank(mem, 2, {"peakRSSDeltaMB"})
            /\ Blank(mem, 3, {"message"}) /\ Blank(mem, 4, {"suite"})
            /\ Blank(mem, 5, {"test"})
            /\ Blank(color, 1, {"label"}) /\ Blank(color, 2, {"deltaE2000Avg"})
            /\ Blank(color, 3, {"deltaE2000Max"})
            /\ Blank(color, 4, {"deltaEWorstPatch"})
            /\ Blank(color, 5, {"suite"}) /\ Blank(color, 6, {"test"})
            /\ Blank(studio, 1, {"label"}) /\ Blank(studio, 2, {"lutMeanAbsErr"})
            /\ Blank(studio, 3, {"lutMaxAbsErr"})
            /\ Blank(studio, 4, {"lutWorstPatch"})
            /\ Blank(studio, 5, {"suite"}) /\ Blank(studio, 6, {"test"})
            /\ Blank(ocio, 1, {"ocioBakeName"})
            /\ Blank(ocio, 2, {"ocioBakeMeanAbsErr"})
            /\ Blank(ocio, 3, {"ocioBakeMaxAbsErr"})
            /\ Blank(ocio, 4, {"suite"}) /\ Blank(ocio, 5, {"test"})

-----------------------------------------------------------------------------
(* C11 *)

\* the orderings of a set of log positions
Arrangements(I) ==
    {s \in [1..Cardinality(I) -> I] : \A i, j \in DOMAIN s : s[i] = s[j] => i = j}

\* the survivors of the run whose event carries one of the fields
SurvivorsWith(run, fields) ==
    {i \in Survivors(run) : \E f \in fields : Has(LogLines[i].obj, f)}

\* text order and number order of two optional values, missing as "" and 0
TextBefore(a, b) == StrRank(OrEmpty(a)) < StrRank(OrEmpty(b))
NumNotAfter(a, b) == OrZero(a) <= OrZero(b)
TextNotAfter(a, b) == StrRank(OrEmpty(a)) <= StrRank(OrEmpty(b))

\* the event a does not come after the event b in each table's order
PerfNotAfter(a, b) ==
    \/ TextBefore(Get(a, "label"), Get(b, "label"))
    \/ /\ OrEmpty(Get(a, "label")) = OrEmpty(Get(b, "label"))
       /\ NumNotAfter(Get(a, "height"), Get(b, "height"))
LabelTestNotAfter(a, b) ==
    \/ TextBefore(Get(a, "label"), Get(b, "label"))
    \/ /\ OrEmpty(Get(a, "label")) = OrEmpty(Get(b, "label"))
       /\ TextNotAfter(Get(a, "test"), Get(b, "test"))
OcioNotAfter(a, b) ==
    \/ TextBefore(Get(a, "ocioBakeName"), Get(b, "ocioBakeName"))
    \/ /\ OrEmpty(Get(a, "ocioBakeName")) = OrEmpty(Get(b, "ocioBakeName"))
       /\ TextNotAfter(Get(a, "test"), Get(b, "test"))

\* the five tables of a summary.md
Tables(lines) ==
    [t \in {PerfTitle, MemTitle, ColorTitle, StudioTitle, OcioTitle} |->
        TableRows(lines, t)]

\* the sets of rows that survive deduplication in the log lines l, by category
SurvivingRowSets(l, run) ==
    LET rows == Categorize(DictValues(LastByKey(RunEvents(Some(l), run))))
    IN  [c \in DOMAIN rows |-> {rows[c][i] : i \in DOMAIN rows[c]}]

\* the lines of the log in another order
Reorderings(l) ==
    {[i \in 1..Len(l) |-> l[p[i]]] : p \in Permutations(1..Len(l))}

\* C11: each category's rows are emitted in a total order determined by the
\* rows themselves. The rows of each table are those of the surviving events
\* ascending by the table's sort key (Performance: label, then height;
\* Memory: label, then test; External-bake: name, then test; missing text as
\* "", a missing number as 0), and a log holding the same events in another
\* order, with the same sets of surviving rows, renders the same tables.
C11_RowOrderFromRows ==
    Completed =>
        LET E(i) == LogLines[i].obj
            perf == SurvivorsWith(call.run, {"avgMs"})
            mem == SurvivorsWith(call.run, {"peakRSSDeltaMB"})
            ocio == SurvivorsWith(call.run,
                                  {"ocioBakeMeanAbsErr", "ocioBakeMaxAbsErr"})
        IN  /\ \E s \in Arrangements(perf) :
                   /\ \A i, j \in DOMAIN s : i < j => PerfNotAfter(E(s[i]), E(s[j]))
                   /\ TableRows(Summary, PerfTitle)
                          = [i \in DOMAIN s |-> PerfLine(PerfRow(E(s[i])))]
            /\ \E s \in Arrangements(mem) :
                   /\ \A i, j \in DOMAIN s :
                          i < j => LabelTestNotAfter(E(s[i]), E(s[j]))
                   /\ TableRows(Summary, MemTitle)
                          = [i \in DOMAIN s |-> MemLine(MemRow(E(s[i])))]
            /\ \E s \in Arrangements(ocio) :
                   /\ \A i, j \in DOMAIN s : i < j => OcioNotAfter(E(s[i]), E(s[j]))
                   /\ TableRows(Summary, OcioTitle)
                          = [i \in DOMAIN s |-> OcioLine(OcioRow(E(s[i])))]
            /\ \A l \in Reorderings(LogLines) :
                   SurvivingRowSets(l, call.run)
                       = SurvivingRowSets(LogLines, call.run)
                   => Tables(RenderSummary(call.run, call.dir,
                                           RunEvents(Some(l), call.run), now))
                      = Tables(Summary)

====
